---- MODULE Spec2Model ----
(***************************************************************************)
(* Weather ingestion (src/ski_notifier/fetch.py) and scoring               *)
(* (src/ski_notifier/score.py) of ski_notifier.                            *)
(*                                                                         *)
(* Eight specifications share the module:                                  *)
(*   SpecHttp   one call of _http_get_with_retry, one step per GET attempt *)
(*   SpecBatch  one call of _fetch_batch, given how its HTTP call ends     *)
(*   Spec       one run of fetch_all_resorts_weather, one step per batch   *)
(*              request (one iteration of its while loop) and a final step *)
(*              that builds the FetchResult.                               *)
(*   SpecSnow   one call of compute_snow24_to_9                            *)
(*   SpecScore  one call of calculate_resort_score                         *)
(*   SpecConvert  one call of _convert_to_cm                               *)
(*   SpecParse  one call of _parse_point_weather_from_batch                *)
(*   SpecTerminating  Spec with the fairness of the sequential loop        *)
(* Python's 0-based list positions are kept in the state (i, index);       *)
(* TLA+ sequences are 1-based, so all_points[k] of the code is             *)
(* all_points[k + 1] here.                                                 *)
(***************************************************************************)
EXTENDS Integers, Sequences, FiniteSets, TLC

VARIABLES
    \* ---- _http_get_with_retry (SpecHttp) ----
    max_retries,     \* the max_retries argument
    attempt,         \* loop variable of "for attempt in range(max_retries)"
    http_state,      \* "idle" | "running" | "returned" | "url_too_long" |
                     \* "request_failed" | "exhausted"
    n_get,           \* number of requests.get calls made by this call
    sleeps,          \* the wait_time of every time.sleep, in order
    last_exception,  \* the local last_exception
    last_outcome,    \* what the latest requests.get produced
    \* ---- fetch_all_resorts_weather (Spec) ----
    resorts,         \* the resorts argument: a sequence of resort ids
    all_points,      \* flat list of BatchPoint
    i,               \* start index of the next batch
    batch_size,
    n_batches,
    all_weather,     \* index -> weather
    all_failed,      \* list of failed indices
    pc,              \* "loop" | "done" | "raised"
    fetch_result,    \* the returned FetchResult, None before the return
    last_request,    \* the latest batch request and how it ended
    n_irregular,     \* irregular response items handed out so far
    n_requests,      \* _fetch_batch calls made by the while loop so far
    n_too_long,      \* those of them that raised URLTooLongError
    n_shrinks,       \* those of them that were followed by a smaller size
    \* ---- _fetch_batch on its own (SpecBatch) ----
    batch_points,    \* the points argument
    batch_http,      \* how its _http_get_with_retry call ends
    batch_body,      \* the body of the response, when there is one
    batch_result,    \* what the call produced, None before it ran
    \* ---- compute_snow24_to_9 (SpecSnow) ----
    target_day,
    hourly_unix_times,
    hourly_snowfall,
    snowfall_unit,
    snow24,          \* the returned (snow24_cm, quality), None before it ran
    \* ---- calculate_resort_score (SpecScore) ----
    weather_low,
    weather_high,
    resort_score,    \* the returned ResortScore, None before it ran
    \* ---- _convert_to_cm (SpecConvert) ----
    convert_value,
    convert_unit,
    convert_result,  \* the returned value, None before it ran
    \* ---- _parse_point_weather_from_batch (SpecParse) ----
    point_payload,   \* the data argument: the payload of one point
    parsed_weather   \* returned: whether the call has returned;
                     \* weather: the returned date -> PointWeather mapping

http_vars == <<max_retries, attempt, http_state, n_get, sleeps,
               last_exception, last_outcome>>
fetch_vars == <<resorts, all_points, i, batch_size, n_batches, all_weather,
                all_failed, pc, fetch_result, last_request, n_irregular,
                n_requests, n_too_long, n_shrinks>>
batch_vars == <<batch_points, batch_http, batch_body, batch_result>>
snow_vars == <<target_day, hourly_unix_times, hourly_snowfall, snowfall_unit,
               snow24>>
score_vars == <<weather_low, weather_high, resort_score>>
convert_vars == <<convert_value, convert_unit, convert_result>>
parse_vars == <<point_payload, parsed_weather>>
calc_vars == <<snow_vars, score_vars, convert_vars, parse_vars>>
vars == <<max_retries, attempt, http_state, n_get, sleeps, last_exception,
          last_outcome, resorts, all_points, i, batch_size, n_batches,
          all_weather, all_failed, pc, fetch_result, last_request,
          n_irregular, n_requests, n_too_long, n_shrinks,
          batch_points, batch_http, batch_body, batch_result,
          target_day, hourly_unix_times, hourly_snowfall, snowfall_unit,
          snow24, weather_low, weather_high, resort_score, convert_value,
          convert_unit, convert_result, point_payload, parsed_weather>>

\* Python's None.
None == [none |-> TRUE]

(***************************************************************************)
(* Program constants.                                                      *)
(***************************************************************************)
DEFAULT_BATCH_SIZE == 40
FALLBACK_BATCH_SIZES == <<20, 10>>
MAX_RETRIES == 5
BACKOFF_BASE == 1
RETRY_STATUS_CODES == {408, 429, 500, 502, 503, 504}

(***************************************************************************)
(* Bounds of the model.                                                    *)
(***************************************************************************)
\* Largest max_retries argument tried by SpecHttp.
MaxRetriesArg == 5
\* Largest number of resorts handed to fetch_all_resorts_weather.
MaxResorts == 11
\* Irregular items of the provider's responses over one run: a defective
\* entry, a response of the wrong length or shape, a body that is no JSON.
MaxIrregular == 1
\* Largest batch handed to _fetch_batch on its own.
MaxBatchPoints == 3

Min(a, b) == IF a < b THEN a ELSE b

Range(s) == {s[k] : k \in DOMAIN s}

RECURSIVE Pow2(_)
Pow2(n) == IF n = 0 THEN 1 ELSE 2 * Pow2(n - 1)

(***************************************************************************)
(* What one requests.get can produce: a response, of which the code reads  *)
(* the status code and (lower-cased) whether the text contains "too long"  *)
(* or "uri", or a requests.RequestException, of which it reads the class   *)
(* and whether the message contains "too long".                            *)
(***************************************************************************)
StatusCodes == {200, 400, 404, 414} \cup RETRY_STATUS_CODES

ExceptionClasses == {"Timeout", "ConnectionError", "RequestException"}

HttpResponses ==
    [kind : {"response"}, status_code : StatusCodes,
     too_long_in_text : BOOLEAN, uri_in_text : BOOLEAN]

HttpExceptions ==
    [kind : {"exception"}, class : ExceptionClasses,
     too_long_in_msg : BOOLEAN]

GetOutcomes == HttpResponses \cup HttpExceptions

\* A mis-detection: only the status 414 counts, the body of a 400 and the
\* exception message are not looked at.
is_url_too_long_error_only_414(response, exception) ==
    response # None /\ response.status_code = 414

is_url_too_long_error(response, exception) ==
    IF response # None /\ response.status_code = 414 THEN TRUE
    ELSE IF /\ response # None
            /\ response.status_code = 400
            /\ (response.too_long_in_text \/ response.uri_in_text) THEN TRUE
    ELSE IF exception # None /\ exception.too_long_in_msg THEN TRUE
    ELSE FALSE

\* A retry policy that retries every response that is not a 200.
should_retry_any_error(response, exception) ==
    IF exception # None /\ exception.class \in {"Timeout", "ConnectionError"}
    THEN TRUE
    ELSE IF response # None THEN response.status_code # 200
    ELSE FALSE

\* A retry policy that also retries the client error 404.
should_retry_client_errors(response, exception) ==
    IF exception # None /\ exception.class \in {"Timeout", "ConnectionError"}
    THEN TRUE
    ELSE IF response # None
    THEN response.status_code \in RETRY_STATUS_CODES \cup {404}
    ELSE FALSE

should_retry(response, exception) ==
    IF exception # None /\ exception.class \in {"Timeout", "ConnectionError"}
    THEN TRUE
    ELSE IF response # None THEN response.status_code \in RETRY_STATUS_CODES
    ELSE FALSE

\* wait_time = BACKOFF_BASE * (2 ** attempt)
wait_time(a) == BACKOFF_BASE * Pow2(a)

(***************************************************************************)
(* _http_get_with_retry.                                                   *)
(***************************************************************************)
\* Entering the function: last_exception = None and the for loop starts;
\* with an empty range the loop body never runs and the final raise is hit.
HttpCall ==
    /\ http_state = "idle"
    /\ attempt' = 0
    /\ last_exception' = None
    /\ http_state' = IF max_retries > 0 THEN "running" ELSE "exhausted"
    /\ UNCHANGED <<max_retries, n_get, sleeps, last_outcome>>

\* "time.sleep(wait_time); continue": the next iteration, or, after the last
\* one, the raise that follows the loop.
SleepAndContinue ==
    /\ sleeps' = Append(sleeps, wait_time(attempt))
    /\ attempt' = attempt + 1
    /\ http_state' = IF attempt + 1 < max_retries THEN "running"
                     ELSE "exhausted"

\* One iteration of the for loop whose requests.get returns resp.
HttpGetResponse(resp) ==
    /\ http_state = "running"
    /\ resp \in HttpResponses
    /\ n_get' = n_get + 1
    /\ last_outcome' = resp
    /\ IF is_url_too_long_error(resp, None)
       THEN /\ http_state' = "url_too_long"
            /\ UNCHANGED <<attempt, sleeps>>
       ELSE IF should_retry(resp, None)
       THEN SleepAndContinue
       ELSE IF resp.status_code # 200
       THEN /\ http_state' = "request_failed"
            /\ UNCHANGED <<attempt, sleeps>>
       ELSE /\ http_state' = "returned"
            /\ UNCHANGED <<attempt, sleeps>>
    /\ UNCHANGED <<max_retries, last_exception>>

\* One iteration of the for loop whose requests.get raises e.
HttpGetException(e) ==
    /\ http_state = "running"
    /\ e \in HttpExceptions
    /\ n_get' = n_get + 1
    /\ last_outcome' = e
    /\ IF is_url_too_long_error(None, e)
       THEN /\ http_state' = "url_too_long"
            /\ UNCHANGED <<attempt, sleeps, last_exception>>
       ELSE /\ last_exception' = e
            /\ IF should_retry(None, e)
               THEN SleepAndContinue
               ELSE /\ http_state' = "request_failed"
                    /\ UNCHANGED <<attempt, sleeps>>
    /\ UNCHANGED max_retries

\* How a call of _http_get_with_retry can end.
HttpResults == {"returned", "url_too_long", "request_failed", "exhausted"}

(***************************************************************************)
(* One entry of a batch response (the payload of one point), by what       *)
(* _fetch_batch and the parser do with it:                                 *)
(*   "valid"         parsed into a non-empty date -> PointWeather mapping  *)
(*   "empty"         falsy: {}, null, [], "", 0                            *)
(*   "no_hourly"     a non-empty object or array without "hourly"          *)
(*   "bad_type"      a JSON value that is truthy and on which              *)
(*                   `"hourly" not in point_data` or `point_data.get`      *)
(*                   raises: a number, true, a string containing "hourly"  *)
(*   "parse_raises"  has "hourly", _parse_point_weather_from_batch raises  *)
(*                   (a field array is missing or too short, ...)          *)
(*   "no_weather"    has "hourly", the parser returns {} (no "time", no    *)
(*                   sample between 09:00 and 16:00)                       *)
(* loc names the place the entry's weather is about.                       *)
(***************************************************************************)
DefectKinds == {"empty", "no_hourly", "bad_type", "parse_raises", "no_weather"}

EntryKinds == {"valid"} \cup DefectKinds

Entry(kind, loc) == [kind |-> kind, loc |-> loc]

\* The empty mapping {} of the code, where a weather mapping is expected.
EmptyWeather == [empty |-> TRUE, loc |-> -1]

\* _parse_point_weather_from_batch, as far as _fetch_batch depends on it:
\* it raises, or returns a mapping that is empty or not.
ParsePointWeather(point_data) ==
    IF point_data.kind = "parse_raises"
    THEN [raised |-> TRUE, weather |-> EmptyWeather]
    ELSE IF point_data.kind = "no_weather"
    THEN [raised |-> FALSE, weather |-> EmptyWeather]
    ELSE [raised |-> FALSE,
          weather |-> [empty |-> FALSE, loc |-> point_data.loc]]

\* The body of a 200 response: resp.json() raises on it (is_json = FALSE),
\* or gives a list of entries, or a single value that is no list.
InvalidJsonBody == [is_json |-> FALSE, is_list |-> FALSE, data |-> <<>>]

ListBody(entries) == [is_json |-> TRUE, is_list |-> TRUE, data |-> entries]

ObjectBody(entry) == [is_json |-> TRUE, is_list |-> FALSE, data |-> entry]

\* An off-by-one slice: [p.index for p in points[from + 1:]]
IndicesFrom_skips_one(points, from) ==
    [k \in 1..(Len(points) - from - 1) |-> points[from + 1 + k].index]

\* [p.index for p in points[from:]] (from is 0-based)
IndicesFrom(points, from) ==
    [k \in 1..(Len(points) - from) |-> points[from + k].index]

\* A loop body that forgets a point whose parsed mapping is empty.
ParseEntry_drops_empty_result(point, point_data, st) ==
    IF st.exc # "none" THEN st
    ELSE IF point_data.kind = "empty"
    THEN [st EXCEPT !.failed = Append(@, point.index)]
    ELSE IF point_data.kind = "bad_type"
    THEN [st EXCEPT !.exc = "TypeError"]
    ELSE IF point_data.kind = "no_hourly"
    THEN [st EXCEPT !.failed = Append(@, point.index)]
    ELSE LET parsed == ParsePointWeather(point_data)
         IN  IF parsed.raised
             THEN [st EXCEPT !.failed = Append(@, point.index)]
             ELSE IF ~parsed.weather.empty
             THEN [st EXCEPT !.success_map =
                                 (point.index :> parsed.weather) @@ @]
             ELSE st

\* One iteration of the loop "for i, point in enumerate(points[:len(
\* responses)])". st holds the locals success_map and failed; when the
\* entry raises outside the try block, exc names the exception, the
\* locals stay as they were at that moment and later entries are not
\* reached.
ParseEntry(point, point_data, st) ==
    IF st.exc # "none" THEN st
    ELSE IF point_data.kind = "empty"
    THEN [st EXCEPT !.failed = Append(@, point.index)]
    ELSE IF point_data.kind = "bad_type"
    THEN [st EXCEPT !.exc = "TypeError"]
    ELSE IF point_data.kind = "no_hourly"
    THEN [st EXCEPT !.failed = Append(@, point.index)]
    ELSE LET parsed == ParsePointWeather(point_data)
         IN  IF ~parsed.raised /\ ~parsed.weather.empty
             THEN [st EXCEPT !.success_map =
                                 (point.index :> parsed.weather) @@ @]
             ELSE [st EXCEPT !.failed = Append(@, point.index)]

\* The iterations lo..hi (1-based) of that loop, in order.
RECURSIVE ParseRange(_, _, _, _, _)
ParseRange(points, responses, lo, hi, st) ==
    IF lo > hi THEN st
    ELSE IF lo = hi THEN ParseEntry(points[lo], responses[lo], st)
    ELSE LET mid == (lo + hi) \div 2
         IN  ParseRange(points, responses, mid + 1, hi,
                        ParseRange(points, responses, lo, mid, st))

\* The whole loop, entered with the list `failed`.
ParseResponses(points, responses, failed) ==
    ParseRange(points, responses, 1, Min(Len(points), Len(responses)),
               [exc |-> "none", success_map |-> <<>>, failed |-> failed])

\* A length validation that gives up the whole batch on a short response.
MismatchFailed_whole_batch(points, responses) ==
    IF Len(responses) < Len(points) THEN IndicesFrom(points, 0) ELSE <<>>

\* The length validation of _fetch_batch: the indices it marks failed
\* before any entry is parsed.
MismatchFailed(points, responses) ==
    IF Len(responses) # Len(points) /\ Len(responses) < Len(points)
    THEN IndicesFrom(points, Len(responses))
    ELSE <<>>

\* A batch whose failed request leaves no trace: nothing is marked failed.
RequestErrorResult_nothing_failed(points) ==
    [exc |-> "none", success_map |-> <<>>, failed |-> <<>>]

\* The except RuntimeError branch of _fetch_batch:
\* return {}, [p.index for p in points]
RequestErrorResult(points) ==
    [exc |-> "none", success_map |-> <<>>, failed |-> IndicesFrom(points, 0)]

\* _fetch_batch(points, ...): http is how its _http_get_with_retry call
\* ends, body the body of the response when it returned one.
FetchBatch(points, http, body) ==
    IF points = <<>>
    THEN [exc |-> "none", success_map |-> <<>>, failed |-> <<>>]
    ELSE IF http = "url_too_long"
    THEN [exc |-> "URLTooLongError", success_map |-> <<>>, failed |-> <<>>]
    ELSE IF http \in {"request_failed", "exhausted"}
    THEN RequestErrorResult(points)
    ELSE IF ~body.is_json
    THEN [exc |-> "JSONDecodeError", success_map |-> <<>>, failed |-> <<>>]
    ELSE LET responses == IF body.is_list THEN body.data ELSE <<body.data>>
         IN  ParseResponses(points, responses,
                            MismatchFailed(points, responses))

(***************************************************************************)
(* fetch_all_resorts_weather.                                              *)
(***************************************************************************)
\* The flattening loop: low then high of every resort, index = position.
RECURSIVE FlattenPoints(_, _)
FlattenPoints(rs, points) ==
    IF rs = <<>> THEN points
    ELSE LET with_low == Append(points,
                 [resort_id |-> Head(rs), point_type |-> "low",
                  index |-> Len(points)])
             with_high == Append(with_low,
                 [resort_id |-> Head(rs), point_type |-> "high",
                  index |-> Len(with_low)])
         IN  FlattenPoints(Tail(rs), with_high)

\* A slice that is one point short of the batch size.
Batch_one_short(points, start, size) ==
    SubSeq(points, start + 1, Min(start + size - 1, Len(points)))

\* all_points[i:i + batch_size]
Batch(points, start, size) ==
    SubSeq(points, start + 1, Min(start + size, Len(points)))

\* FALLBACK_BATCH_SIZES.index(size)
FallbackIndex(size) ==
    (CHOOSE k \in DOMAIN FALLBACK_BATCH_SIZES :
         /\ FALLBACK_BATCH_SIZES[k] = size
         /\ \A j \in 1..(k - 1) : FALLBACK_BATCH_SIZES[j] # size) - 1

\* A shrink that goes straight to the last fallback size.
SmallerBatchSize_skips_to_last(size) ==
    IF size = FALLBACK_BATCH_SIZES[Len(FALLBACK_BATCH_SIZES)]
    THEN [shrink |-> FALSE, size |-> size]
    ELSE [shrink |-> TRUE,
          size |-> FALLBACK_BATCH_SIZES[Len(FALLBACK_BATCH_SIZES)]]

\* A shrink that wraps around: after the last fallback size comes the
\* first one again.
SmallerBatchSize_wraps(size) ==
    IF size \in Range(FALLBACK_BATCH_SIZES)
    THEN [shrink |-> TRUE,
          size |-> FALLBACK_BATCH_SIZES[
                       ((FallbackIndex(size) + 1) % Len(FALLBACK_BATCH_SIZES))
                       + 1]]
    ELSE [shrink |-> TRUE, size |-> FALLBACK_BATCH_SIZES[1]]

\* A shrink that keeps halving below the last fallback size, down to 5.
SmallerBatchSize_halves(size) ==
    IF size > 5 THEN [shrink |-> TRUE, size |-> size \div 2]
    ELSE [shrink |-> FALSE, size |-> size]

\* The except URLTooLongError branch: the smaller size to retry with
\* (shrink = TRUE), or that all fallbacks are exhausted.
SmallerBatchSize(size) ==
    IF size \in Range(FALLBACK_BATCH_SIZES)
    THEN LET idx == FallbackIndex(size)
         IN  IF idx + 1 < Len(FALLBACK_BATCH_SIZES)
             THEN [shrink |-> TRUE, size |-> FALLBACK_BATCH_SIZES[idx + 2]]
             ELSE [shrink |-> FALSE, size |-> size]
    ELSE IF size = DEFAULT_BATCH_SIZE /\ FALLBACK_BATCH_SIZES # <<>>
    THEN [shrink |-> TRUE, size |-> FALLBACK_BATCH_SIZES[1]]
    ELSE [shrink |-> FALSE, size |-> size]

\* The bodies the provider may answer a request for `points` with, using
\* at most `budget` irregular items. A regular body is a list with one
\* valid entry per point, in the order of the request.
RegularEntries(points, k) ==
    [j \in 1..k |-> Entry("valid", points[1].index + j - 1)]

RECURSIVE WithDefects(_, _)
WithDefects(entries, d) ==
    IF d <= 0 THEN {entries}
    ELSE LET fewer == WithDefects(entries, d - 1)
         IN  fewer \cup
             {[e EXCEPT ![p].kind = dk] :
                  e \in fewer, p \in DOMAIN entries, dk \in DefectKinds}

Bodies(points, budget) ==
    LET n == Len(points)
    IN  {ListBody(es) : es \in WithDefects(RegularEntries(points, n), budget)}
        \cup (IF budget < 1 THEN {}
              ELSE {InvalidJsonBody}
                   \cup {ObjectBody(Entry("valid", points[1].index))}
                   \cup UNION {{ListBody(es) :
                                   es \in WithDefects(RegularEntries(points, k),
                                                      budget - 1)} :
                               k \in (0..(n + 1)) \ {n}}
                   \cup (IF budget < 2 THEN {}
                         ELSE {ObjectBody(Entry(dk, points[1].index)) :
                                   dk \in DefectKinds}))

\* The irregular items of a body sent for n points.
Irregularity(body, n) ==
    IF ~body.is_json THEN 1
    ELSE IF ~body.is_list
    THEN (IF n = 1 THEN 0 ELSE 1) + (IF body.data.kind = "valid" THEN 0 ELSE 1)
    ELSE (IF Len(body.data) = n THEN 0 ELSE 1)
         + Cardinality({p \in DOMAIN body.data : body.data[p].kind # "valid"})

\* A count that leaves out the batches without any parsed point.
n_batches_after_only_success(n, r) ==
    IF r.success_map = <<>> THEN n ELSE n + 1

\* "n_batches += 1" after _fetch_batch returned r.
n_batches_after(n, r) == n + 1

\* One iteration of the while loop whose _fetch_batch call returns:
\* the request is answered, or fails with retries exhausted or fatally.
RequestResolved(http, body) ==
    /\ pc = "loop"
    /\ i < Len(all_points)
    /\ http \in HttpResults \ {"url_too_long"}
    /\ LET batch == Batch(all_points, i, batch_size)
           r == FetchBatch(batch, http, body)
       IN  /\ last_request' = [start |-> batch[1].index, len |-> Len(batch),
                               size |-> batch_size, http |-> http,
                               exc |-> r.exc]
           /\ n_irregular' = n_irregular +
                  (IF http = "returned" THEN Irregularity(body, Len(batch))
                   ELSE 0)
           /\ n_requests' = n_requests + 1
           /\ IF r.exc = "none"
              THEN /\ all_weather' = r.success_map @@ all_weather
                   /\ all_failed' = all_failed \o r.failed
                   /\ n_batches' = n_batches_after(n_batches, r)
                   /\ i' = i + Len(batch)
                   /\ pc' = "loop"
              ELSE \* not a URLTooLongError: nothing catches it
                   /\ pc' = "raised"
                   /\ UNCHANGED <<all_weather, all_failed, n_batches, i>>
    /\ UNCHANGED <<resorts, all_points, batch_size, fetch_result, n_too_long,
                   n_shrinks>>

\* One iteration of the while loop whose _fetch_batch call raises
\* URLTooLongError.
RequestTooLong ==
    /\ pc = "loop"
    /\ i < Len(all_points)
    /\ LET batch == Batch(all_points, i, batch_size)
           r == FetchBatch(batch, "url_too_long", None)
           smaller == SmallerBatchSize(batch_size)
       IN  /\ r.exc = "URLTooLongError"
           /\ last_request' = [start |-> batch[1].index, len |-> Len(batch),
                               size |-> batch_size, http |-> "url_too_long",
                               exc |-> r.exc]
           /\ n_requests' = n_requests + 1
           /\ n_too_long' = n_too_long + 1
           /\ n_shrinks' = n_shrinks + (IF smaller.shrink THEN 1 ELSE 0)
           /\ IF smaller.shrink
              THEN /\ batch_size' = smaller.size
                   /\ UNCHANGED <<all_failed, i>>
              ELSE /\ all_failed' = all_failed \o IndicesFrom(batch, 0)
                   /\ i' = i + Len(batch)
                   /\ UNCHANGED batch_size
    /\ UNCHANGED <<resorts, all_points, n_batches, all_weather, pc,
                   fetch_result, n_irregular>>

\* A grouping that files the weather under the other role of the resort.
ResortPointWeather_swapped(resort_id, point_type) ==
    LET found == {idx \in DOMAIN all_weather :
                     /\ all_points[idx + 1].resort_id = resort_id
                     /\ all_points[idx + 1].point_type # point_type}
    IN  IF found = {} THEN EmptyWeather
        ELSE all_weather[CHOOSE idx \in found : TRUE]

\* resort_weather_data[resort_id][point_type], {} when there is none
ResortPointWeather(resort_id, point_type) ==
    LET found == {idx \in DOMAIN all_weather :
                     /\ all_points[idx + 1].resort_id = resort_id
                     /\ all_points[idx + 1].point_type = point_type}
    IN  IF found = {} THEN EmptyWeather
        ELSE all_weather[CHOOSE idx \in found : TRUE]

\* A resort given up as soon as one of its points has no weather.
ResortFailed_either(low_weather, high_weather) ==
    low_weather.empty \/ high_weather.empty

\* "if not low_weather and not high_weather" of the final loop
ResortFailed(low_weather, high_weather) ==
    low_weather.empty /\ high_weather.empty

\* The final loop over resorts: the ids appended to failed_resorts, in order.
FailedResorts(rs) ==
    SelectSeq(rs, LAMBDA id : ResortFailed(ResortPointWeather(id, "low"),
                                           ResortPointWeather(id, "high")))

\* The final loop over resorts: weather_by_resort.
WeatherByResort(rs) ==
    LET kept == {id \in Range(rs) :
                    ~ResortFailed(ResortPointWeather(id, "low"),
                                  ResortPointWeather(id, "high"))}
    IN  [id \in kept |-> [low |-> ResortPointWeather(id, "low"),
                          high |-> ResortPointWeather(id, "high")]]

\* The while loop ends: the FetchResult is built and returned.
ReturnResult ==
    /\ pc = "loop"
    /\ ~(i < Len(all_points))
    /\ fetch_result' = [weather |-> WeatherByResort(resorts),
                        failed_resorts |-> FailedResorts(resorts),
                        n_points_total |-> Len(all_points),
                        n_points_success |-> Cardinality(DOMAIN all_weather),
                        n_batches |-> n_batches]
    /\ pc' = "done"
    /\ UNCHANGED <<resorts, all_points, i, batch_size, n_batches, all_weather,
                   all_failed, last_request, n_irregular, n_requests,
                   n_too_long, n_shrinks>>

(***************************************************************************)
(* _fetch_batch called on its own.                                         *)
(***************************************************************************)
RunFetchBatch ==
    /\ batch_result = None
    /\ batch_result' = FetchBatch(batch_points, batch_http, batch_body)
    /\ UNCHANGED <<batch_points, batch_http, batch_body>>

(***************************************************************************)
(* Optional numbers (Optional[float]).  Numbers are fixed-point integers;  *)
(* the unit is stated where a value is used.                               *)
(***************************************************************************)
Null == [null |-> TRUE, v |-> 0]

Some(x) == [null |-> FALSE, v |-> x]

\* round(x, 1) of a value given in 1/scale of a tenth: the nearest tenth.
\* When the decimal value lies exactly halfway between two tenths, the
\* float that stands for it lies just below or just above the tie, so
\* either neighbour can come out.
RoundTenths(x, scale) ==
    LET q == x \div scale
        r == x % scale
    IN  IF 2 * r < scale THEN {q}
        ELSE IF 2 * r > scale THEN {q + 1}
        ELSE {q, q + 1}

(***************************************************************************)
(* compute_snow24_to_9.  Times are Unix seconds, days are days since       *)
(* 1970-01-01.  Raw snowfall values are in tenths of the API unit, the     *)
(* converted total in hundredths of a cm, the result in tenths of a cm.    *)
(***************************************************************************)
SECONDS_PER_HOUR == 3600

SECONDS_PER_DAY == 86400

\* ZoneInfo("Europe/Berlin") in 2025: CEST (UTC+2) from 2025-03-30 01:00
\* UTC until 2025-10-26 01:00 UTC, CET (UTC+1) otherwise.  At 09:00 local
\* time the offset is therefore CEST exactly on the days from 2025-03-30
\* up to and including 2025-10-25.
SpringForwardDay == 20177

FallBackDay == 20387

UtcOffset(day) ==
    IF SpringForwardDay <= day /\ day < FallBackDay
    THEN 2 * SECONDS_PER_HOUR
    ELSE SECONDS_PER_HOUR

\* int(datetime(y, m, d, 9, 0, tzinfo=tz).timestamp())
NineOClockUnix(day) == day * SECONDS_PER_DAY + 9 * SECONDS_PER_HOUR - UtcOffset(day)

end_unix(day) == NineOClockUnix(day)

\* start_dt = end_dt - timedelta(hours=24): subtracting a timedelta from an
\* aware datetime moves its wall-clock fields and keeps the tzinfo, so
\* start_dt is 09:00 local time of the day before, and timestamp() applies
\* the UTC offset in force at that wall-clock time.
start_unix(day) == NineOClockUnix(day - 1)

\* A window whose end boundary is included.
expected_unix_end_inclusive(day) ==
    LET n == (end_unix(day) - start_unix(day)) \div SECONDS_PER_HOUR
    IN  {start_unix(day) + SECONDS_PER_HOUR * k : k \in 0..n}

\* The while loop "t = start_unix; while t < end_unix: add t; t += 3600".
expected_unix(day) ==
    LET n == (end_unix(day) - start_unix(day) + SECONDS_PER_HOUR - 1)
                 \div SECONDS_PER_HOUR
    IN  {start_unix(day) + SECONDS_PER_HOUR * k : k \in 0..(n - 1)}

\* unix_t - (unix_t % 3600)
NormalizeHour(unix_t) == unix_t - (unix_t % SECONDS_PER_HOUR)

\* A conversion that takes millimetres for centimetres.
convert_to_cm_mm_as_cm(value, unit) ==
    IF unit = "m" THEN value * 1000 ELSE value * 10

\* _convert_to_cm, from tenths of the unit to hundredths of a cm.
convert_to_cm(value, unit) ==
    IF unit = "m" THEN value * 1000
    ELSE IF unit = "cm" THEN value * 10
    ELSE IF unit = "mm" THEN value
    ELSE value * 10

\* _convert_to_cm with its "if value is None: return None".
convert_to_cm_optional(value, unit) ==
    IF value.null THEN Null ELSE Some(convert_to_cm(value.v, unit))

\* The pairs of zip(hourly_unix_times, hourly_snowfall) that the loop adds
\* to time_to_value, by position.
MatchedPairs(times, values, day) ==
    {k \in 1..Min(Len(times), Len(values)) :
        /\ NormalizeHour(times[k]) \in expected_unix(day)
        /\ ~values[k].null}

\* Sum of values[k].v over the positions k of lo..hi that are in ks.
RECURSIVE SumAt(_, _, _, _)
SumAt(values, ks, lo, hi) ==
    IF lo > hi THEN 0
    ELSE IF lo = hi THEN (IF lo \in ks THEN values[lo].v ELSE 0)
    ELSE LET mid == (lo + hi) \div 2
         IN  SumAt(values, ks, lo, mid) + SumAt(values, ks, mid + 1, hi)

\* A dict in which a later sample of an hour replaces the earlier one.
time_to_value_overwrites(times, values, day) ==
    LET ks == MatchedPairs(times, values, day)
    IN  [t \in {NormalizeHour(times[k]) : k \in ks} |->
            LET same == {k \in ks : NormalizeHour(times[k]) = t}
            IN  values[CHOOSE k \in same : \A j \in same : j <= k].v]

\* The dict time_to_value after the loop: duplicates are summed.
time_to_value(times, values, day) ==
    LET ks == MatchedPairs(times, values, day)
    IN  [t \in {NormalizeHour(times[k]) : k \in ks} |->
            SumAt(values, {k \in ks : NormalizeHour(times[k]) = t},
                  1, Len(values))]

\* sum(snow_values)
RECURSIVE SumSlots(_, _, _, _)
SumSlots(ttv, start, lo, hi) ==
    IF lo > hi THEN 0
    ELSE IF lo = hi
    THEN (IF start + SECONDS_PER_HOUR * lo \in DOMAIN ttv
          THEN ttv[start + SECONDS_PER_HOUR * lo] ELSE 0)
    ELSE LET mid == (lo + hi) \div 2
         IN  SumSlots(ttv, start, lo, mid) + SumSlots(ttv, start, mid + 1, hi)

Snow24Quality(missing_times, length_mismatch) ==
    IF missing_times # {} \/ length_mismatch THEN "partial" ELSE "ok"

\* A rule that reports missing only when there is no pair at all.
NoSnowValues_only_when_empty(times, values, ttv) ==
    Len(times) = 0 \/ Len(values) = 0

\* "if not snow_values"
NoSnowValues(times, values, ttv) == DOMAIN ttv = {}

\* Every (snow24_cm, quality) that the function can return.
ComputeSnow24To9(times, values, day, api_unit) ==
    LET length_mismatch == Len(times) # Len(values)
        unit == IF api_unit \notin {"mm", "cm", "m"} THEN "cm"
                ELSE api_unit
        ttv == time_to_value(times, values, day)
        missing_times == expected_unix(day) \ DOMAIN ttv
        total_cm == convert_to_cm(
                        SumSlots(ttv, start_unix(day), 0,
                                 Cardinality(expected_unix(day)) - 1),
                        unit)
    IN  IF NoSnowValues(times, values, ttv)
        THEN {[snow24_cm |-> Null, quality |-> "missing"]}
        ELSE {[snow24_cm |-> Some(r),
               quality |-> Snow24Quality(missing_times, length_mismatch)] :
                  r \in RoundTenths(total_cm, 10)}

(***************************************************************************)
(* score.py.  A PointWeather is the record of the fields that the scorer   *)
(* reads, each an optional number in tenths (cm, km/h, mm, degrees C).     *)
(* Point and resort scores are in tenths of a point, intermediate sums in  *)
(* hundredths (point) and thousandths (resort); confidence is in tenths.   *)
(***************************************************************************)
\* A clamp without the upper limit.
clamp_no_upper(value, min_val, max_val) ==
    IF value > min_val THEN value ELSE min_val

\* max(min_val, min(max_val, value))
clamp(value, min_val, max_val) ==
    LET m == IF max_val < value THEN max_val ELSE value
    IN  IF min_val > m THEN min_val ELSE m

Max0(x) == IF x > 0 THEN x ELSE 0

snowfall_for_scoring(weather) ==
    IF ~weather.snow24_to_9_cm.null THEN weather.snow24_to_9_cm
    ELSE weather.snowfall_cm

\* The score before the final clamp, in hundredths of a point: inputs in
\* tenths times coefficients in tenths.
RawPointScore(weather) ==
    LET fresh == snowfall_for_scoring(weather)
        temp == weather.temp_c_avg_9_16
    IN  5000
        + (IF ~weather.snow_depth_cm.null
           THEN clamp(weather.snow_depth_cm.v, 0, 600) * 6 ELSE 0)
        + (IF ~fresh.null THEN clamp(fresh.v, 0, 300) * 4 ELSE 0)
        - (IF ~weather.wind_gust_kmh_max_9_16.null
           THEN Max0(weather.wind_gust_kmh_max_9_16.v - 350) * 8 ELSE 0)
        - (IF ~weather.precip_mm_sum_9_16.null
           THEN Max0(weather.precip_mm_sum_9_16.v - 80) * 10 ELSE 0)
        - (IF ~temp.null
           THEN Max0(temp.v - 40) * 30 + Max0(-temp.v - 180) * 10 ELSE 0)

\* A flag that is set only by a positive amount of snow.
HasSnowData_positive_only(weather) ==
    \/ ~weather.snow_depth_cm.null /\ weather.snow_depth_cm.v > 0
    \/ /\ ~snowfall_for_scoring(weather).null
       /\ snowfall_for_scoring(weather).v > 0

HasSnowData(weather) ==
    \/ ~weather.snow_depth_cm.null
    \/ ~snowfall_for_scoring(weather).null

\* Every PointScore that calculate_point_score can return.
calculate_point_score(weather) ==
    {[score |-> r, has_snow_data |-> HasSnowData(weather)] :
         r \in RoundTenths(clamp(RawPointScore(weather), 0, 10000), 10)}

\* A confidence that looks at the low point only for the middle value.
Confidence_low_only(low_has, high_has) ==
    IF low_has /\ high_has THEN 10
    ELSE IF low_has THEN 7
    ELSE 4

Confidence(low_has, high_has) ==
    IF low_has /\ high_has THEN 10
    ELSE IF low_has \/ high_has THEN 7
    ELSE 4

\* A combination that weights both points equally.
combined_score_equal_weights(score_low, score_high) ==
    50 * score_low + 50 * score_high

\* combined_score = 0.45 * score_low.score + 0.55 * score_high.score, in
\* thousandths of a point from scores in tenths.
combined_score(score_low, score_high) == 45 * score_low + 55 * score_high

\* Every ResortScore that calculate_resort_score can return.
calculate_resort_score(low, high) ==
    UNION {{[score |-> r,
             confidence |-> Confidence(pair[1].has_snow_data,
                                       pair[2].has_snow_data),
             score_low |-> pair[1],
             score_high |-> pair[2],
             weather_low |-> low,
             weather_high |-> high] :
                r \in RoundTenths(combined_score(pair[1].score,
                                                 pair[2].score), 100)} :
           pair \in calculate_point_score(low)
                      \X calculate_point_score(high)}

(***************************************************************************)
(* _parse_point_weather_from_batch on a payload whose hourly "time" holds  *)
(* Unix timestamps (the request asks for timeformat=unixtime) and whose    *)
(* hourly arrays are as long as "time".  A payload is a record             *)
(*   time, temperature_2m, wind_gusts_10m, precipitation, snowfall         *)
(*       the hourly arrays (optional numbers in tenths)                    *)
(*   daily_time, snow_depth_max, snowfall_sum                              *)
(*       the daily arrays, <<>> when the key is absent or empty            *)
(*   snowfall_unit, snow_depth_unit, snowfall_sum_unit                     *)
(*       the unit annotations after their defaults.                        *)
(* Aggregates are in tenths; dates are days since 1970-01-01.              *)
(***************************************************************************)
\* The UTC offset of Europe/Berlin at the instant t, in 2025.
UtcOffsetAt(t) ==
    IF /\ SpringForwardDay * SECONDS_PER_DAY + SECONDS_PER_HOUR <= t
       /\ t < FallBackDay * SECONDS_PER_DAY + SECONDS_PER_HOUR
    THEN 2 * SECONDS_PER_HOUR
    ELSE SECONDS_PER_HOUR

\* datetime.fromtimestamp(t, tz=tz).date()
LocalDate(t) == (t + UtcOffsetAt(t)) \div SECONDS_PER_DAY

\* datetime.fromtimestamp(t, tz=tz).hour
LocalHour(t) == ((t + UtcOffsetAt(t)) % SECONDS_PER_DAY) \div SECONDS_PER_HOUR

\* A window that leaves out the hour 16.
InSkiingWindow_end_exclusive(hour) == 9 <= hour /\ hour < 16

\* 9 <= dt.hour <= 16
InSkiingWindow(hour) == 9 <= hour /\ hour <= 16

\* indices = [i for i, dt in enumerate(hourly_times)
\*            if dt.date() == d and 9 <= dt.hour <= 16]
WindowIndices(data, d) ==
    {k \in 1..Len(data.time) :
        LocalDate(data.time[k]) = d /\ InSkiingWindow(LocalHour(data.time[k]))}

\* full_day_indices
FullDayIndices(data, d) ==
    {k \in 1..Len(data.time) : LocalDate(data.time[k]) = d}

\* The positions of ks whose reading is not None.
NonNull(values, ks) == {k \in ks : ~values[k].null}

\* temp_avg = sum(temps) / len(temps) if temps else None, then
\* round(temp_avg, 1): every value that can come out.
TempAvg(values, ks) ==
    LET temps == NonNull(values, ks)
    IN  IF temps = {} THEN {Null}
        ELSE {Some(r) :
                 r \in RoundTenths(SumAt(values, temps, 1, Len(values)),
                                   Cardinality(temps))}

\* gust_max = max(gusts) if gusts else None
GustMax(values, ks) ==
    LET gusts == NonNull(values, ks)
    IN  IF gusts = {} THEN Null
        ELSE Some(values[CHOOSE k \in gusts :
                             \A j \in gusts : values[j].v <= values[k].v].v)

\* A sum that reports a total of zero as None.
PrecipSum_zero_is_none(values, ks) ==
    LET precip == NonNull(values, ks)
        total == SumAt(values, precip, 1, Len(values))
    IN  IF precip = {} \/ total = 0 THEN Null ELSE Some(total)

\* precip_sum = sum(precip) if precip else None
PrecipSum(values, ks) ==
    LET precip == NonNull(values, ks)
    IN  IF precip = {} THEN Null
        ELSE Some(SumAt(values, precip, 1, Len(values)))

\* daily_dates.index(d) as a 1-based position, 0 when d is not in it.
DailyIndex(data, d) ==
    LET found == {j \in 1..Len(data.daily_time) :
                     LocalDate(data.daily_time[j]) = d}
    IN  IF found = {} THEN 0
        ELSE CHOOSE j \in found : \A q \in found : j <= q

\* The daily value of the date d, converted to cm (hundredths), None when
\* the array is absent or empty, d is not a daily date or the value is None.
DailyValueCm(data, values, unit, d) ==
    IF values # <<>> /\ DailyIndex(data, d) > 0
       /\ ~values[DailyIndex(data, d)].null
    THEN convert_to_cm_optional(values[DailyIndex(data, d)], unit)
    ELSE Null

\* snowfall_cm before rounding: the daily sum, else the hourly snowfall of
\* the full calendar day.
SnowfallCm(data, d) ==
    LET daily_sum == DailyValueCm(data, data.snowfall_sum,
                                  data.snowfall_sum_unit, d)
        full_day == NonNull(data.snowfall, FullDayIndices(data, d))
    IN  IF ~daily_sum.null THEN daily_sum
        ELSE IF full_day # {}
        THEN convert_to_cm_optional(
                 Some(SumAt(data.snowfall, full_day, 1, Len(data.snowfall))),
                 data.snowfall_unit)
        ELSE Null

\* round(x, 1) if x is not None else None, x in hundredths.
RoundOptional(x) ==
    IF x.null THEN {Null} ELSE {Some(r) : r \in RoundTenths(x.v, 10)}

\* Every PointWeather that the loop body can build for the date d.
DayRecords(data, d) ==
    LET ks == WindowIndices(data, d)
    IN  {[date |-> d,
          temp_c_avg_9_16 |-> t,
          wind_gust_kmh_max_9_16 |-> GustMax(data.wind_gusts_10m, ks),
          precip_mm_sum_9_16 |-> PrecipSum(data.precipitation, ks),
          snow_depth_cm |-> depth,
          snowfall_cm |-> fall,
          snow24_to_9_cm |-> s24.snow24_cm,
          snow24_quality |-> s24.quality] :
             t \in TempAvg(data.temperature_2m, ks),
             depth \in RoundOptional(
                          DailyValueCm(data, data.snow_depth_max,
                                       data.snow_depth_unit, d)),
             fall \in RoundOptional(SnowfallCm(data, d)),
             s24 \in ComputeSnow24To9(data.time, data.snowfall, d,
                                      data.snowfall_unit)}

\* Every result of _parse_point_weather_from_batch(data, ...): one record
\* for each date that has a sample in the skiing window.
ParsePointWeatherFromBatch(data) ==
    LET dates == {LocalDate(data.time[k]) : k \in 1..Len(data.time)}
        kept == {d \in dates : WindowIndices(data, d) # {}}
    IN  {result \in [kept -> UNION {DayRecords(data, d) : d \in kept}] :
            \A d \in kept : result[d] \in DayRecords(data, d)}

InitHttpVars ==
    /\ attempt = 0
    /\ http_state = "idle"
    /\ n_get = 0
    /\ sleeps = <<>>
    /\ last_exception = None
    /\ last_outcome = None

InitFetchIdle ==
    /\ resorts = <<>>
    /\ all_points = <<>>
    /\ i = 0
    /\ batch_size = DEFAULT_BATCH_SIZE
    /\ n_batches = 0
    /\ all_weather = <<>>
    /\ all_failed = <<>>
    /\ pc = "idle"
    /\ fetch_result = None
    /\ last_request = None
    /\ n_irregular = 0
    /\ n_requests = 0
    /\ n_too_long = 0
    /\ n_shrinks = 0

InitBatchIdle ==
    /\ batch_points = <<>>
    /\ batch_http = "returned"
    /\ batch_body = None
    /\ batch_result = None

InitSnowIdle ==
    /\ target_day = 0
    /\ hourly_unix_times = <<>>
    /\ hourly_snowfall = <<>>
    /\ snowfall_unit = "cm"
    /\ snow24 = None

InitScoreIdle ==
    /\ weather_low = None
    /\ weather_high = None
    /\ resort_score = None

NotParsed == [returned |-> FALSE, weather |-> <<>>]

InitConvertIdle ==
    /\ convert_value = Null
    /\ convert_unit = "cm"
    /\ convert_result = None

InitParseIdle ==
    /\ point_payload = None
    /\ parsed_weather = NotParsed

InitCalcIdle ==
    InitSnowIdle /\ InitScoreIdle /\ InitConvertIdle /\ InitParseIdle

InitHttp ==
    /\ max_retries \in 0..MaxRetriesArg
    /\ InitHttpVars
    /\ InitFetchIdle
    /\ InitBatchIdle
    /\ InitCalcIdle

NextHttp ==
    \/ HttpCall /\ UNCHANGED <<fetch_vars, batch_vars, calc_vars>>
    \/ \E resp \in HttpResponses : HttpGetResponse(resp) /\ UNCHANGED <<fetch_vars, batch_vars, calc_vars>>
    \/ \E e \in HttpExceptions : HttpGetException(e) /\ UNCHANGED <<fetch_vars, batch_vars, calc_vars>>

SpecHttp == InitHttp /\ [][NextHttp]_vars


\* Every list of at most n entries of every kind, the k-th about place
\* first + k - 1.
RECURSIVE EntryLists(_, _)
EntryLists(n, first) ==
    IF n = 0 THEN {<<>>}
    ELSE LET shorter == EntryLists(n - 1, first)
         IN  shorter \cup
             {Append(es, Entry(kind, first + Len(es))) :
                  es \in {x \in shorter : Len(x) = n - 1}, kind \in EntryKinds}

InitBatch ==
    /\ \E n \in 1..MaxBatchPoints, first \in {0, 2} :
          /\ batch_points = [k \in 1..n |->
                 [resort_id |-> (first + k - 1) \div 2,
                  point_type |-> IF (first + k - 1) % 2 = 0 THEN "low"
                                 ELSE "high",
                  index |-> first + k - 1]]
          /\ \/ /\ batch_http = "returned"
                /\ batch_body \in
                       {InvalidJsonBody}
                       \cup {ListBody(es) : es \in EntryLists(n + 1, first)}
                       \cup {ObjectBody(Entry(kind, first)) :
                                 kind \in EntryKinds}
             \/ /\ batch_http \in HttpResults \ {"returned"}
                /\ batch_body = None
    /\ batch_result = None
    /\ max_retries = MAX_RETRIES
    /\ InitHttpVars
    /\ InitFetchIdle
    /\ InitCalcIdle

NextBatch == RunFetchBatch /\ UNCHANGED <<http_vars, fetch_vars, calc_vars>>

SpecBatch == InitBatch /\ [][NextBatch]_vars

Init ==
    /\ \E n \in 0..MaxResorts : resorts = [k \in 1..n |-> k]
    /\ all_points = FlattenPoints(resorts, <<>>)
    /\ i = 0
    /\ batch_size = DEFAULT_BATCH_SIZE
    /\ n_batches = 0
    /\ all_weather = <<>>
    /\ all_failed = <<>>
    /\ pc = "loop"
    /\ fetch_result = None
    /\ last_request = None
    /\ n_irregular = 0
    /\ n_requests = 0
    /\ n_too_long = 0
    /\ n_shrinks = 0
    /\ max_retries = MAX_RETRIES
    /\ InitHttpVars
    /\ InitBatchIdle
    /\ InitCalcIdle

Next ==
    \/ /\ \E http \in {"request_failed", "exhausted"} :
              RequestResolved(http, None)
       /\ UNCHANGED <<http_vars, batch_vars, calc_vars>>
    \/ /\ pc = "loop"
       /\ i < Len(all_points)
       /\ \E body \in Bodies(Batch(all_points, i, batch_size),
                            MaxIrregular - n_irregular) :
              RequestResolved("returned", body)
       /\ UNCHANGED <<http_vars, batch_vars, calc_vars>>
    \/ RequestTooLong /\ UNCHANGED <<http_vars, batch_vars, calc_vars>>
    \/ ReturnResult /\ UNCHANGED <<http_vars, batch_vars, calc_vars>>

Spec == Init /\ [][Next]_vars

\* The run as it is scheduled: the function is one sequential loop whose
\* every request ends (the GETs have timeouts, the retries are bounded), so
\* a step that is possible is eventually taken.
SpecTerminating == Init /\ [][Next]_vars /\ WF_vars(Next)

(***************************************************************************)
(* SpecSnow: compute_snow24_to_9 on hourly series around the window.  The  *)
(* series starts `back` hours before 09:00 of the target day and has n     *)
(* hourly samples, each `shift` seconds into its hour; one value may be    *)
(* None, the value list may be one shorter or longer than the time list,   *)
(* and the first hour may be reported twice.                               *)
(***************************************************************************)
MaxHoursBack == 26

\* The day before the spring transition, the two transition days of 2025
\* and the day after the autumn transition.
TargetDays == {SpringForwardDay - 1, SpringForwardDay,
               FallBackDay, FallBackDay + 1}

SnowfallUnits == {"cm", "mm", "m", "inch"}

SampleTimes(day, back, n, shift, dup) ==
    LET ts == [k \in 1..n |->
                  end_unix(day) - SECONDS_PER_HOUR * back
                  + SECONDS_PER_HOUR * (k - 1) + shift]
    IN  IF dup /\ n > 0 THEN Append(ts, ts[1] + 60) ELSE ts

SampleValues(n, v, hole, dup) ==
    LET vs == [k \in 1..n |-> IF k = hole THEN Null ELSE Some(v)]
    IN  IF dup /\ n > 0 THEN Append(vs, Some(v)) ELSE vs

InitSnow ==
    /\ target_day \in TargetDays
    /\ snowfall_unit \in SnowfallUnits
    /\ \E back \in {0, 1} \cup 22..MaxHoursBack,
          shift \in {0, 1800},
          v \in {0, 25},
          hole \in {0, 1},
          delta \in {-1, 0, 1},
          dup \in BOOLEAN :
          \E n \in {m \in {0, 1, 2, back - 1, back, back + 1} :
                        m >= 0 /\ m + delta >= 0} :
              /\ hourly_unix_times = SampleTimes(target_day, back, n, shift, dup)
              /\ hourly_snowfall = SampleValues(n + delta, v, hole, dup)
    /\ snow24 = None
    /\ max_retries = MAX_RETRIES
    /\ InitHttpVars
    /\ InitFetchIdle
    /\ InitBatchIdle
    /\ InitScoreIdle
    /\ InitConvertIdle
    /\ InitParseIdle

RunComputeSnow24To9 ==
    /\ snow24 = None
    /\ snow24' \in ComputeSnow24To9(hourly_unix_times, hourly_snowfall,
                                    target_day, snowfall_unit)
    /\ UNCHANGED <<target_day, hourly_unix_times, hourly_snowfall,
                   snowfall_unit>>

NextSnow ==
    RunComputeSnow24To9
    /\ UNCHANGED <<http_vars, fetch_vars, batch_vars, score_vars,
                   convert_vars, parse_vars>>

SpecSnow == InitSnow /\ [][NextSnow]_vars

(***************************************************************************)
(* SpecScore: calculate_resort_score on a low and a high PointWeather.     *)
(* Inputs have one decimal: snow values come out of round(x, 1).           *)
(***************************************************************************)
PointWeather(depth, snow24_cm, snowfall, gust, precip, temp) ==
    [snow_depth_cm |-> depth,
     snow24_to_9_cm |-> snow24_cm,
     snowfall_cm |-> snowfall,
     wind_gust_kmh_max_9_16 |-> gust,
     precip_mm_sum_9_16 |-> precip,
     temp_c_avg_9_16 |-> temp]

Optionals(xs) == {Null} \cup {Some(x) : x \in xs}

LowWeathers ==
    {PointWeather(d, s, f, g, p, t) :
        d \in Optionals({0, 255, 700}),
        s \in Optionals({-10, 0, 400}),
        f \in Optionals({57}),
        g \in Optionals({351, 1200}),
        p \in Optionals({95}),
        t \in Optionals({-250, 41, 400})}

HighWeathers ==
    {PointWeather(d, s, f, Null, Null, t) :
        d \in Optionals({255, 700}),
        s \in Optionals({0, 400}),
        f \in Optionals({57}),
        t \in Optionals({41})}

InitScore ==
    /\ weather_low \in LowWeathers
    /\ weather_high \in HighWeathers
    /\ resort_score = None
    /\ max_retries = MAX_RETRIES
    /\ InitHttpVars
    /\ InitFetchIdle
    /\ InitBatchIdle
    /\ InitSnowIdle
    /\ InitConvertIdle
    /\ InitParseIdle

RunCalculateResortScore ==
    /\ resort_score = None
    /\ resort_score' \in calculate_resort_score(weather_low, weather_high)
    /\ UNCHANGED <<weather_low, weather_high>>

NextScore ==
    RunCalculateResortScore
    /\ UNCHANGED <<http_vars, fetch_vars, batch_vars, snow_vars,
                   convert_vars, parse_vars>>

SpecScore == InitScore /\ [][NextScore]_vars

(***************************************************************************)
(* SpecConvert: _convert_to_cm on None and on values in tenths of every    *)
(* unit, recognized or not.                                                *)
(***************************************************************************)
MaxConvertValue == 30

ConvertUnits == {"m", "cm", "mm", "inch", ""}

InitConvert ==
    /\ convert_value \in Optionals(-3..MaxConvertValue)
    /\ convert_unit \in ConvertUnits
    /\ convert_result = None
    /\ max_retries = MAX_RETRIES
    /\ InitHttpVars
    /\ InitFetchIdle
    /\ InitBatchIdle
    /\ InitSnowIdle
    /\ InitScoreIdle
    /\ InitParseIdle

RunConvertToCm ==
    /\ convert_result = None
    /\ convert_result' = convert_to_cm_optional(convert_value, convert_unit)
    /\ UNCHANGED <<convert_value, convert_unit>>

NextConvert ==
    RunConvertToCm
    /\ UNCHANGED <<http_vars, fetch_vars, batch_vars, snow_vars, score_vars,
                   parse_vars>>

SpecConvert == InitConvert /\ [][NextConvert]_vars

(***************************************************************************)
(* SpecParse: _parse_point_weather_from_batch on a short hourly series     *)
(* that starts at a given local hour and whose samples are `step` hours    *)
(* apart, with or without daily data for the first day.                    *)
(***************************************************************************)
MaxSamples == 2

ParseDays == {SpringForwardDay, FallBackDay + 1}

StartHours == {8, 15, 16, 23}

\* The Unix time of the local hour h (h >= 3) of the day.
LocalHourUnix(day, h) ==
    day * SECONDS_PER_DAY + h * SECONDS_PER_HOUR - UtcOffset(day)

Payloads ==
    UNION {
      {[time |-> [k \in 1..n |-> LocalHourUnix(day, h)
                                   + (k - 1) * step * SECONDS_PER_HOUR],
        temperature_2m |-> [k \in 1..n |-> IF temp_null[k] THEN Null
                                           ELSE Some(15 * k - 60)],
        wind_gusts_10m |-> [k \in 1..n |-> IF gust_null[k] THEN Null
                                           ELSE Some(230 - 30 * k)],
        precipitation |-> precs,
        snowfall |-> [k \in 1..n |-> Some(2)],
        daily_time |-> IF daily = "none" THEN <<>>
                       ELSE <<LocalHourUnix(day, 3) - 3 * SECONDS_PER_HOUR>>,
        snow_depth_max |-> IF daily = "none" THEN <<>> ELSE <<Some(5)>>,
        snowfall_sum |-> IF daily = "depth_and_sum" THEN <<Some(12)>>
                         ELSE <<>>,
        snowfall_unit |-> "cm",
        snow_depth_unit |-> "m",
        snowfall_sum_unit |-> "cm"] :
          temp_null \in [1..n -> BOOLEAN],
          gust_null \in [1..n -> BOOLEAN],
          precs \in [1..n -> Optionals({0, 7})],
          day \in ParseDays,
          h \in StartHours,
          step \in {1, 18},
          daily \in {"none", "depth", "depth_and_sum"}} :
      n \in 0..MaxSamples}

InitParse ==
    /\ point_payload \in Payloads
    /\ parsed_weather = NotParsed
    /\ max_retries = MAX_RETRIES
    /\ InitHttpVars
    /\ InitFetchIdle
    /\ InitBatchIdle
    /\ InitSnowIdle
    /\ InitScoreIdle
    /\ InitConvertIdle

RunParsePointWeather ==
    /\ ~parsed_weather.returned
    /\ \E weather \in ParsePointWeatherFromBatch(point_payload) :
           parsed_weather' = [returned |-> TRUE, weather |-> weather]
    /\ UNCHANGED point_payload

NextParse ==
    RunParsePointWeather
    /\ UNCHANGED <<http_vars, fetch_vars, batch_vars, snow_vars, score_vars,
                   convert_vars>>

SpecParse == InitParse /\ [][NextParse]_vars

(***************************************************************************)
(* Properties.                                                             *)
(***************************************************************************)
\* A step of Spec that issued a batch request.
RequestStep == last_request' # last_request

\* [start, start + 1, ..., start + len - 1]
Consecutive(start, len) == [k \in 1..len |-> start + k - 1]

SmallestBatchSize == FALLBACK_BATCH_SIZES[Len(FALLBACK_BATCH_SIZES)]

\* C1: a request for the batch at flat index i that is rejected as
\* URL-too-long while a smaller size is configured moves the batch size to
\* the next smaller one (40 -> 20, 20 -> 10), adds nothing to the success
\* map or the failed list and leaves i alone; the very next request starts
\* at the same index with the smaller size.
C1_ShrinkRetriesSameStart ==
    [][/\ (/\ RequestStep
           /\ last_request'.http = "url_too_long"
           /\ last_request'.size # SmallestBatchSize)
          => /\ last_request'.start = i
             /\ last_request'.size = batch_size
             /\ batch_size' = (IF batch_size = 40 THEN 20 ELSE 10)
             /\ i' = i
             /\ all_weather' = all_weather
             /\ all_failed' = all_failed
             /\ pc' = "loop"
       /\ (/\ last_request # None
           /\ last_request.http = "url_too_long"
           /\ last_request.size # SmallestBatchSize
           /\ RequestStep)
          => /\ last_request'.start = last_request.start
             /\ last_request'.size =
                    (IF last_request.size = 40 THEN 20 ELSE 10)]_vars

\* C1 witness: the batch at index 20 was rejected at size 20 (itself reached
\* by a shrink from 40) and the size is now 10 with i still 20.
C1_Witness ==
    /\ last_request # None
    /\ last_request.http = "url_too_long"
    /\ last_request.size = 20
    /\ last_request.start = 20
    /\ i = 20
    /\ batch_size = 10

\* C2: a request rejected as URL-too-long at the smallest size (10) marks
\* every point of that batch failed and advances past it; the run goes on
\* with the following batch, still at size 10.
C2_SmallestSizeGivesUpBatch ==
    [][/\ (/\ RequestStep
           /\ last_request'.http = "url_too_long"
           /\ last_request'.size = 10)
          => /\ batch_size = 10
             /\ last_request'.start = i
             /\ last_request'.len = Min(10, Len(all_points) - i)
             /\ all_failed' =
                    all_failed \o Consecutive(i, last_request'.len)
             /\ i' = i + last_request'.len
             /\ batch_size' = 10
             /\ all_weather' = all_weather
             /\ pc' = "loop"
       /\ (/\ last_request # None
           /\ last_request.http = "url_too_long"
           /\ last_request.size = 10
           /\ RequestStep)
          => /\ last_request'.size = 10
             /\ last_request'.start =
                    last_request.start + last_request.len]_vars

\* C2 witness: the batch 0..9 was given up at size 10 (it is in the failed
\* list and was not counted as a batch) and the next batch, 10..19, was
\* answered at size 10.
C2_Witness ==
    /\ last_request # None
    /\ last_request.http = "returned"
    /\ last_request.start = 10
    /\ last_request.size = 10
    /\ n_batches = 1
    /\ Len(all_failed) >= 10
    /\ SubSeq(all_failed, 1, 10) = Consecutive(0, 10)
    /\ 15 \in DOMAIN all_weather

\* C3: the batch size is always one of 40, 20, 10, starts at 40 and never
\* increases: every request uses a size at most that of the request
\* before it.
C3_BatchSizeNeverIncreases ==
    /\ batch_size = 40
    /\ [](batch_size \in {40, 20, 10})
    /\ [][batch_size' <= batch_size]_vars
    /\ [][(RequestStep /\ last_request # None)
          => last_request'.size <= last_request.size]_vars
    /\ [][RequestStep => last_request'.size = batch_size]_vars

\* C3 witness: a run that shrank to 10 and then had requests answered.
C3_Witness ==
    /\ pc = "done"
    /\ batch_size = 10
    /\ n_batches = 3

\* C4: a request that fails with retries exhausted or with a fatal error
\* marks all points of the current batch failed, advances to the next
\* batch and leaves the batch size unchanged.
C4_FailedRequestFailsBatch ==
    [][(/\ RequestStep
        /\ last_request'.http \in {"exhausted", "request_failed"})
       => /\ last_request'.start = i
          /\ last_request'.len = Min(batch_size, Len(all_points) - i)
          /\ all_failed' = all_failed \o Consecutive(i, last_request'.len)
          /\ i' = i + last_request'.len
          /\ batch_size' = batch_size
          /\ all_weather' = all_weather
          /\ pc' = "loop"]_vars

\* C4 witness: at size 20 the batch 0..19 was answered and the batch 20..21
\* failed fatally.
C4_Witness ==
    /\ last_request # None
    /\ last_request.http = "request_failed"
    /\ last_request.start = 20
    /\ batch_size = 20
    /\ i = 22
    /\ all_failed = <<20, 21>>
    /\ 0 \in DOMAIN all_weather

\* C5: whatever the requests and the payloads do, fetch_all_resorts_weather
\* propagates no error to its caller.
C5_NoErrorPropagates == pc # "raised"

\* The flat index of a resort's point, read off all_points.
PointIndexOf(resort_id, point_type) ==
    (CHOOSE k \in DOMAIN all_points :
         /\ all_points[k].resort_id = resort_id
         /\ all_points[k].point_type = point_type) - 1

Usable(resort_id, point_type) ==
    PointIndexOf(resort_id, point_type) \in DOMAIN all_weather

\* C6: in the FetchResult a resort id is in failed_resorts if and only if
\* neither its low nor its high point ended with usable weather; a resort
\* with exactly one successful point is in weather, with that point's
\* mapping populated and the other one empty, and is not listed as failed.
C6_FailedIffBothPointsFailed ==
    pc = "done" =>
        \A id \in Range(resorts) :
            /\ (id \in Range(fetch_result.failed_resorts))
               <=> (~Usable(id, "low") /\ ~Usable(id, "high"))
            /\ (id \in DOMAIN fetch_result.weather)
               <=> (id \notin Range(fetch_result.failed_resorts))
            /\ (Usable(id, "low") /\ ~Usable(id, "high"))
               => /\ id \in DOMAIN fetch_result.weather
                  /\ fetch_result.weather[id].low =
                         all_weather[PointIndexOf(id, "low")]
                  /\ ~fetch_result.weather[id].low.empty
                  /\ fetch_result.weather[id].high.empty
            /\ (~Usable(id, "low") /\ Usable(id, "high"))
               => /\ id \in DOMAIN fetch_result.weather
                  /\ fetch_result.weather[id].high =
                         all_weather[PointIndexOf(id, "high")]
                  /\ ~fetch_result.weather[id].high.empty
                  /\ fetch_result.weather[id].low.empty

\* C6 witness: a result with a resort whose low point alone succeeded, a
\* failed resort and a resort with both points.
C6_Witness ==
    /\ pc = "done"
    /\ \E a, b, c \in Range(resorts) :
          /\ Usable(a, "low") /\ ~Usable(a, "high")
          /\ ~Usable(b, "low") /\ ~Usable(b, "high")
          /\ Usable(c, "low") /\ Usable(c, "high")
          /\ b \in Range(fetch_result.failed_resorts)
          /\ a \in DOMAIN fetch_result.weather

\* The entries of the latest _fetch_batch call's response.
BatchResponses ==
    IF batch_body.is_list THEN batch_body.data ELSE <<batch_body.data>>

BatchAnswered ==
    /\ batch_result # None
    /\ batch_http = "returned"
    /\ batch_body.is_json

\* C7: when the response has k entries for n points, k < n, exactly the
\* last n - k points are marked failed for the length mismatch, and the
\* first k points are matched to the entries by position and parsed as
\* they are in a response of the right length: the outcome is that of a
\* request for the first k points alone answered by the same k entries,
\* with the last n - k indices put in front of the failed list.
C7_ShortResponseFailsTrailingPoints ==
    (BatchAnswered /\ Len(BatchResponses) < Len(batch_points)) =>
        LET n == Len(batch_points)
            k == Len(BatchResponses)
            trailing == [j \in 1..(n - k) |-> batch_points[k + j].index]
            alone == FetchBatch(SubSeq(batch_points, 1, k), "returned",
                                batch_body)
        IN  /\ batch_result.exc = alone.exc
            /\ batch_result.exc = "none" =>
                  /\ batch_result.success_map = alone.success_map
                  /\ batch_result.failed = trailing \o alone.failed
                  /\ \A j \in 1..k :
                        LET idx == batch_points[j].index
                            entry == BatchResponses[j]
                        IN  /\ idx \notin Range(trailing)
                            /\ (entry.kind = "valid")
                               <=> (idx \in DOMAIN batch_result.success_map)
                            /\ (entry.kind # "valid")
                               <=> (idx \in Range(batch_result.failed))
                            /\ (entry.kind = "valid")
                               => batch_result.success_map[idx].loc = entry.loc
                  /\ \A j \in (k + 1)..n :
                        batch_points[j].index
                            \notin DOMAIN batch_result.success_map

\* C7 witness: three points, two entries, the first valid and the second
\* empty: the third point fails for the mismatch, the second on its own.
C7_Witness ==
    /\ BatchAnswered
    /\ Len(batch_points) = 3
    /\ batch_body.is_list
    /\ Len(batch_body.data) = 2
    /\ batch_body.data[1].kind = "valid"
    /\ batch_body.data[2].kind = "empty"
    /\ batch_result.exc = "none"
    /\ batch_result.failed = <<batch_points[3].index, batch_points[2].index>>
    /\ DOMAIN batch_result.success_map = {batch_points[1].index}

\* C8: within one batch response a point whose payload is malformed (empty,
\* without the hourly key, or raising during parsing) is marked failed on
\* its own: every other point of the batch is still parsed and, if its
\* payload is valid, recorded as successful.
C8_MalformedPointFailsAlone ==
    BatchAnswered =>
        LET m == Min(Len(batch_points), Len(BatchResponses))
        IN  \A j \in 1..m :
                BatchResponses[j].kind \in {"empty", "no_hourly", "parse_raises"}
                => /\ batch_result.exc = "none"
                   /\ batch_points[j].index \in Range(batch_result.failed)
                   /\ \A q \in (1..m) \ {j} :
                         BatchResponses[q].kind = "valid"
                         => batch_points[q].index
                                \in DOMAIN batch_result.success_map

\* The classes of the outcome of one GET, as the claims name them.
Is200(o) == o # None /\ o.kind = "response" /\ o.status_code = 200

UrlTooLongOutcome(o) ==
    /\ o # None
    /\ IF o.kind = "response"
       THEN \/ o.status_code = 414
            \/ o.status_code = 400 /\ (o.too_long_in_text \/ o.uri_in_text)
       ELSE o.too_long_in_msg

TransientOutcome(o) ==
    /\ o # None
    /\ ~UrlTooLongOutcome(o)
    /\ IF o.kind = "response"
       THEN o.status_code \in {408, 429, 500, 502, 503, 504}
       ELSE o.class \in {"Timeout", "ConnectionError"}

\* C9: _http_get_with_retry issues a further GET only after a transient
\* outcome, returns on the first HTTP 200, never makes more than
\* max_retries GETs, and when all max_retries attempts were transient it
\* ends with retries exhausted after exactly max_retries GETs.
C9_RetriesOnlyTransient ==
    /\ [][(n_get' > n_get /\ n_get > 0) => TransientOutcome(last_outcome)]_vars
    /\ [](/\ n_get <= max_retries
          /\ Is200(last_outcome) <=> (http_state = "returned")
          /\ (http_state = "exhausted")
             => /\ n_get = max_retries
                /\ n_get > 0 => TransientOutcome(last_outcome)
          /\ (n_get > 0 /\ n_get = max_retries
              /\ TransientOutcome(last_outcome))
             => http_state = "exhausted"
          /\ (http_state = "running" /\ n_get > 0)
             => TransientOutcome(last_outcome))

\* C9 witness: five transient outcomes in a row with max_retries = 5.
C9_Witness ==
    /\ http_state = "exhausted"
    /\ max_retries = 5
    /\ n_get = 5
    /\ TransientOutcome(last_outcome)

\* C10: an attempt with a URL-too-long outcome ends the call at once with
\* URLTooLongError: no sleep follows that attempt (the sleeps are those of
\* the attempts before it) and no further GET is issued.
C10_UrlTooLongFailsAtOnce ==
    /\ [](UrlTooLongOutcome(last_outcome)
          <=> (http_state = "url_too_long"))
    /\ [](http_state = "url_too_long" => Len(sleeps) = n_get - 1)
    /\ [][UrlTooLongOutcome(last_outcome)
          => (n_get' = n_get /\ sleeps' = sleeps
              /\ http_state' = http_state)]_vars

\* C10 witness: the third attempt gets a 400 whose body mentions the URI.
C10_Witness ==
    /\ http_state = "url_too_long"
    /\ n_get = 3
    /\ Len(sleeps) = 2
    /\ last_outcome.kind = "response"
    /\ last_outcome.status_code = 400
    /\ last_outcome.uri_in_text

\* A status that is neither 200, nor retryable, nor URL-too-long.
FatalStatus(o) ==
    /\ o # None
    /\ o.kind = "response"
    /\ o.status_code # 200
    /\ o.status_code \notin {408, 429, 500, 502, 503, 504}
    /\ ~UrlTooLongOutcome(o)

\* C11: an attempt that returns a status that is neither 200, nor
\* retryable, nor URL-too-long ends the call on that attempt with an error
\* other than URLTooLongError: no sleep follows the attempt and no further
\* GET is issued.
C11_FatalStatusFailsAtOnce ==
    /\ [](FatalStatus(last_outcome)
          => /\ http_state = "request_failed"
             /\ Len(sleeps) = n_get - 1)
    /\ [][FatalStatus(last_outcome)
          => (n_get' = n_get /\ sleeps' = sleeps
              /\ http_state' = http_state)]_vars

\* C11 witness: two transient attempts, then a 404 on the third.
C11_Witness ==
    /\ http_state = "request_failed"
    /\ n_get = 3
    /\ Len(sleeps) = 2
    /\ last_outcome.kind = "response"
    /\ last_outcome.status_code = 404

\* C12: a finished call that made k GET attempts slept exactly k - 1
\* times, the a-th sleep (0-based) lasting BACKOFF_BASE * 2^a, whether it
\* ended in success or in retries exhausted.
C12_SleepsOnlyBetweenAttempts ==
    (http_state \in {"returned", "exhausted"} /\ n_get > 0)
    => /\ Len(sleeps) = n_get - 1
       /\ \A a \in 0..(Len(sleeps) - 1) : sleeps[a + 1] = Pow2(a)

\* The cause of the latest failed attempt: the exception that requests.get
\* raised, or the response with the retryable status.
LastCause == last_outcome

\* C13: when the call ends with retries exhausted, the error carries the
\* cause of the last failed attempt, whatever the transient outcomes were.
C13_ExhaustedCarriesLastCause ==
    (http_state = "exhausted" /\ n_get > 0) => last_exception = LastCause

\* C14: for every target day the interval [start, end) that
\* compute_snow24_to_9 uses spans exactly 86400 seconds and has exactly 24
\* expected hourly slots, also when a daylight-saving transition of
\* Europe/Berlin falls inside it.
C14_WindowIsTwentyFourHours ==
    snow24 # None
    => /\ end_unix(target_day) - start_unix(target_day) = 86400
       /\ Cardinality(expected_unix(target_day)) = 24

\* The positions of the zipped series whose sample is non-null and whose
\* hour-normalized timestamp t satisfies from <= t < to.
SamplesWithin(from, to) ==
    {k \in 1..Len(hourly_unix_times) :
        /\ k <= Len(hourly_snowfall)
        /\ ~hourly_snowfall[k].null
        /\ from <= hourly_unix_times[k] - (hourly_unix_times[k] % 3600)
        /\ hourly_unix_times[k] - (hourly_unix_times[k] % 3600) < to}

\* The non-null samples inside the window that the function uses.
SamplesInWindow ==
    SamplesWithin(start_unix(target_day), end_unix(target_day))

\* The series is one non-null sample taken at the Unix time t.
SingleSampleAt(t) ==
    /\ Len(hourly_unix_times) = 1
    /\ Len(hourly_snowfall) = 1
    /\ ~hourly_snowfall[1].null
    /\ hourly_unix_times[1] = t

\* The raw amount in tenths of the unit, in hundredths of a cm.
InHundredthsOfCm(raw) ==
    IF snowfall_unit = "m" THEN raw * 1000
    ELSE IF snowfall_unit = "mm" THEN raw
    ELSE raw * 10

\* C15: a sample is counted if and only if its hour-normalized timestamp t
\* satisfies start <= t < end: the result is the sum of exactly those
\* samples; one sample at exactly start gives that sample with quality
\* partial, one sample at exactly end gives (None, missing).
C15_StartInclusiveEndExclusive ==
    snow24 # None
    => /\ snow24.snow24_cm.null <=> (SamplesInWindow = {})
       /\ SamplesInWindow # {}
          => snow24.snow24_cm.v \in
                 RoundTenths(InHundredthsOfCm(
                     SumAt(hourly_snowfall, SamplesInWindow, 1,
                           Len(hourly_snowfall))), 10)
       /\ SingleSampleAt(start_unix(target_day))
          => /\ snow24.quality = "partial"
             /\ snow24.snow24_cm.v \in
                    RoundTenths(InHundredthsOfCm(hourly_snowfall[1].v), 10)
       /\ SingleSampleAt(end_unix(target_day))
          => snow24 = [snow24_cm |-> Null, quality |-> "missing"]

\* C15 witness: one sample of 2.5 cm at exactly start came back as 2.5 cm,
\* partial.
C15_Witness ==
    /\ snow24 # None
    /\ SingleSampleAt(start_unix(target_day))
    /\ snowfall_unit = "cm"
    /\ snow24 = [snow24_cm |-> Some(25), quality |-> "partial"]

\* The 24 hourly slots of the 24 hours that end at 09:00 of the target day.
TwentyFourSlots ==
    {end_unix(target_day) - 3600 * k : k \in 1..24}

\* C16: the quality is ok if and only if each of the 24 expected hourly
\* slots received a non-null sample and the two arrays have equal length;
\* whenever at least one sample matched and that is not so, it is partial.
C16_OkIffAllSlotsAndEqualLength ==
    (snow24 # None /\ ~snow24.snow24_cm.null)
    => /\ snow24.quality \in {"ok", "partial"}
       /\ (snow24.quality = "ok")
          <=> /\ \A t \in TwentyFourSlots : SamplesWithin(t, t + 3600) # {}
              /\ Len(hourly_unix_times) = Len(hourly_snowfall)

\* C17: the result is (None, missing) exactly when no non-null sample falls
\* in the window; the value is None if and only if the quality is missing,
\* so the quality is never missing once a value matched.
C17_MissingIffNothingMatched ==
    snow24 # None
    => /\ snow24.snow24_cm.null <=> (snow24.quality = "missing")
       /\ (snow24.quality = "missing") <=> (SamplesInWindow = {})
       /\ snow24.quality = "missing" => snow24.snow24_cm = Null

\* C17 witness: a series with non-null samples, none of them inside the
\* window, came back as (None, missing).
C17_Witness ==
    /\ snow24 = [snow24_cm |-> Null, quality |-> "missing"]
    /\ Len(hourly_unix_times) > 0
    /\ Len(hourly_snowfall) > 0
    /\ ~hourly_snowfall[1].null

\* x limited to lo..hi.
Limited(x, lo, hi) == IF x < lo THEN lo ELSE IF x > hi THEN hi ELSE x

\* The amount by which x exceeds the threshold, 0 for None or below it.
Excess(opt, threshold) ==
    IF opt.null \/ opt.v <= threshold THEN 0 ELSE opt.v - threshold

\* The fresh-snow input: snow24_to_9_cm when it is non-null, the legacy
\* snowfall_cm otherwise.
FreshSnow(w) ==
    IF w.snow24_to_9_cm.null THEN w.snowfall_cm ELSE w.snow24_to_9_cm

\* The formula of the point score, in hundredths of a point.
PointScoreFormula(w) ==
    Limited(5000
            + (IF w.snow_depth_cm.null THEN 0
               ELSE Limited(w.snow_depth_cm.v, 0, 600) * 6)
            + (IF FreshSnow(w).null THEN 0
               ELSE Limited(FreshSnow(w).v, 0, 300) * 4)
            - Excess(w.wind_gust_kmh_max_9_16, 350) * 8
            - Excess(w.precip_mm_sum_9_16, 80) * 10
            - Excess(w.temp_c_avg_9_16, 40) * 30
            - (IF w.temp_c_avg_9_16.null THEN 0
               ELSE Excess(Some(-w.temp_c_avg_9_16.v), 180) * 10),
            0, 10000)

\* C18: the point score is clamp(50 + clamp(depth,0,60)*0.6
\* + clamp(fresh,0,30)*0.4 - max(0,gust-35)*0.8 - max(0,precip-8)*1.0
\* - max(0,temp-4)*3.0 - max(0,-temp-18)*1.0, 0, 100) rounded to one
\* decimal, a None input contributing nothing and fresh being
\* snow24_to_9_cm or else snowfall_cm; it lies within [0, 100].
C18_PointScoreFormula ==
    resort_score # None
    => /\ resort_score.score_low.score
              \in RoundTenths(PointScoreFormula(weather_low), 10)
       /\ resort_score.score_high.score
              \in RoundTenths(PointScoreFormula(weather_high), 10)
       /\ resort_score.score_low.score \in 0..1000
       /\ resort_score.score_high.score \in 0..1000

\* C18 witness: depth 70 cm (clamped to 60), no snow24 but 5.7 cm of
\* legacy snowfall, gusts of 35.1 km/h, 9.5 mm of precipitation and 4.1
\* degrees score 50 + 36 + 2.28 - 0.08 - 1.5 - 0.3 = 86.4.
C18_Witness ==
    /\ resort_score # None
    /\ weather_low = PointWeather(Some(700), Null, Some(57), Some(351),
                                  Some(95), Some(41))
    /\ resort_score.score_low.score = 864

\* The point has a snow depth or a fresh-snow input.
SnowInputPresent(w) ==
    \/ ~w.snow_depth_cm.null
    \/ ~w.snow24_to_9_cm.null
    \/ ~w.snowfall_cm.null

\* C19: has_snow_data is true if and only if snow_depth_cm is non-null or
\* the fresh-snow input (snow24_to_9_cm, else snowfall_cm) is non-null,
\* whatever the values, zero included, and whatever wind, precipitation and
\* temperature are.
C19_HasSnowDataIffSnowInput ==
    resort_score # None
    => /\ resort_score.score_low.has_snow_data
              <=> SnowInputPresent(weather_low)
       /\ resort_score.score_high.has_snow_data
              <=> SnowInputPresent(weather_high)

\* C19 witness: a depth of 0 cm, no fresh-snow input, and wind, rain and
\* temperature present: has_snow_data is true.
C19_Witness ==
    /\ resort_score # None
    /\ weather_low = PointWeather(Some(0), Null, Null, Some(1200),
                                  Some(95), Some(400))
    /\ resort_score.score_low.has_snow_data

\* C20: the confidence is 1.0 when both points have snow data, 0.7 when
\* exactly one has, 0.4 when neither has, and nothing else.
C20_ConfidenceLevels ==
    resort_score # None
    => LET low_has == resort_score.score_low.has_snow_data
           high_has == resort_score.score_high.has_snow_data
       IN  /\ resort_score.confidence \in {10, 7, 4}
           /\ (resort_score.confidence = 10) <=> (low_has /\ high_has)
           /\ (resort_score.confidence = 7) <=> (low_has # high_has)
           /\ (resort_score.confidence = 4) <=> (~low_has /\ ~high_has)

\* C20 witness: only the high point has snow data, the confidence is 0.7.
C20_Witness ==
    /\ resort_score # None
    /\ ~resort_score.score_low.has_snow_data
    /\ resort_score.score_high.has_snow_data
    /\ resort_score.confidence = 7

\* C21: the resort score is 0.45 * score_low + 0.55 * score_high, taken
\* from the point scores as returned (already rounded), rounded to one
\* decimal: it is a multiple of 0.1 at most 0.05 away from that sum.  A
\* low score of 50 and a high score of 98 give 76.4.
C21_ResortScoreWeighted ==
    resort_score # None
    => LET exact == 45 * resort_score.score_low.score
                    + 55 * resort_score.score_high.score
       IN  /\ 100 * resort_score.score - exact <= 50
           /\ exact - 100 * resort_score.score <= 50
           /\ (resort_score.score_low.score = 500
               /\ resort_score.score_high.score = 980)
              => resort_score.score = 764

\* C21 witness: low 50.0 without any snow data, high 98.0, resort 76.4.
C21_Witness ==
    /\ resort_score # None
    /\ resort_score.score_low.score = 500
    /\ resort_score.score_high.score = 980
    /\ resort_score.score = 764

\* C22: _convert_to_cm returns for every value and every unit: None for
\* None; the value times 100 for "m"; the value divided by 10 for "mm";
\* the value itself for "cm" and for any other unit.  (The argument is in
\* tenths of the unit, the result in hundredths of a cm.)
C22_ConvertToCm ==
    convert_result # None
    => /\ convert_value.null => convert_result = Null
       /\ ~convert_value.null
          => /\ ~convert_result.null
             /\ convert_unit = "m"
                => convert_result.v = (10 * convert_value.v) * 100
             /\ convert_unit = "mm"
                => 10 * convert_result.v = 10 * convert_value.v \* x / 10
             /\ convert_unit \notin {"m", "mm"}
                => convert_result.v = 10 * convert_value.v

\* C22 witness: 2.5 mm came back as 0.25 cm.
C22_Witness ==
    /\ convert_result = Some(25)
    /\ convert_value = Some(25)
    /\ convert_unit = "mm"

\* The hour slots of the window that hold at least one non-null sample.
FilledSlots ==
    {hourly_unix_times[k] - (hourly_unix_times[k] % 3600) :
         k \in SamplesInWindow}

\* Two or more non-null samples fall on the same in-window hour.
SamplesCollide == Cardinality(FilledSlots) < Cardinality(SamplesInWindow)

\* C26: timestamps are normalized to their hour (t - t mod 3600) before
\* matching; when several non-null samples fall on the same in-window hour
\* all of them are added to the total, none is dropped or overwritten, and
\* the hour counts as one filled slot: the quality is ok only if every
\* slot of the window is filled, however many samples there are.
C26_CollidingSamplesAreSummed ==
    (snow24 # None /\ SamplesCollide)
    => /\ ~snow24.snow24_cm.null
       /\ snow24.snow24_cm.v \in
              RoundTenths(InHundredthsOfCm(
                  SumAt(hourly_snowfall, SamplesInWindow, 1,
                        Len(hourly_snowfall))), 10)
       /\ (snow24.quality = "ok")
          <=> /\ Cardinality(FilledSlots) * 3600
                     = end_unix(target_day) - start_unix(target_day)
              /\ Len(hourly_unix_times) = Len(hourly_snowfall)

\* C26 witness: 24 slots filled by 25 samples of 2.5 cm, two of them in
\* the first hour at different seconds: 62.5 cm, ok.
C26_Witness ==
    /\ snow24 = [snow24_cm |-> Some(625), quality |-> "ok"]
    /\ snowfall_unit = "cm"
    /\ Len(hourly_unix_times) = 25
    /\ Cardinality(FilledSlots) = 24
    /\ hourly_unix_times[1] # hourly_unix_times[25]
    /\ hourly_unix_times[1] % 3600 # 0

\* C25: the points have the contiguous 0-based flat indices of the order
\* resort0.low, resort0.high, resort1.low, ... (resort r: low 2r, high
\* 2r + 1); every request covers the contiguous slice that starts at the
\* current start index and has at most batch_size points; the weather at
\* position j of a response ends up with the resort and the role of the
\* j-th point of the slice.
C25_FlatOrderAndAttribution ==
    /\ [](\A k \in 1..Len(all_points) :
              all_points[k] =
                  [resort_id |-> resorts[(k + 1) \div 2],
                   point_type |-> IF k % 2 = 1 THEN "low" ELSE "high",
                   index |-> k - 1])
    /\ [](Len(all_points) = 2 * Len(resorts))
    /\ [][RequestStep
          => /\ last_request'.start = i
             /\ last_request'.len >= 1
             /\ last_request'.len <= batch_size
             /\ last_request'.len
                    = Min(batch_size, Len(all_points) - i)]_vars
    /\ [](\A idx \in DOMAIN all_weather : all_weather[idx].loc = idx)
    /\ [](fetch_result # None
          => \A r \in 0..(Len(resorts) - 1) :
                 resorts[r + 1] \in DOMAIN fetch_result.weather
                 => LET w == fetch_result.weather[resorts[r + 1]]
                    IN  /\ ~w.low.empty => w.low.loc = 2 * r
                        /\ ~w.high.empty => w.high.loc = 2 * r + 1)

\* C25 witness: 11 resorts fetched in more than one request; the last
\* resort got the weather of the points 20 and 21.
C25_Witness ==
    /\ fetch_result # None
    /\ Len(resorts) = 11
    /\ n_batches >= 2
    /\ 11 \in DOMAIN fetch_result.weather
    /\ fetch_result.weather[11].low.loc = 20
    /\ fetch_result.weather[11].high.loc = 21

\* C27: when the FetchResult is returned, every flat index is either a key
\* of the success map or occurs exactly once in the failed list, never
\* both, so n_points_success + number of failed points = n_points_total.
C27_EveryPointResolvedOnce ==
    fetch_result # None
    => LET all_indices == 0..(Len(all_points) - 1)
       IN  /\ DOMAIN all_weather \cup Range(all_failed) = all_indices
           /\ DOMAIN all_weather \cap Range(all_failed) = {}
           /\ \A p, q \in DOMAIN all_failed :
                  all_failed[p] = all_failed[q] => p = q
           /\ fetch_result.n_points_success + Len(all_failed)
                  = fetch_result.n_points_total
           /\ fetch_result.n_points_total = Len(all_points)

\* C27 witness: a run with two shrinks that returned with parsed points
\* and failed points.
C27_Witness ==
    /\ fetch_result # None
    /\ n_shrinks = 2
    /\ Len(all_failed) > 0
    /\ fetch_result.n_points_success > 0
    /\ fetch_result.n_points_total = 22

\* C28: every batch starts at an even index and, as the number of points
\* is even, has an even number of points: the low and the high point of a
\* resort are always in the same request.
C28_ResortPointsShareRequest ==
    /\ [](i % 2 = 0)
    /\ [](last_request # None
          => /\ last_request.start % 2 = 0
             /\ last_request.len % 2 = 0
             /\ \A r \in 0..(Len(resorts) - 1) :
                    (2 * r \in last_request.start..
                         (last_request.start + last_request.len - 1))
                    <=> (2 * r + 1 \in last_request.start..
                             (last_request.start + last_request.len - 1)))

\* C28 witness: after two shrinks the third batch of ten starts at 20.
C28_Witness ==
    /\ last_request # None
    /\ last_request.start = 20
    /\ last_request.size = 10
    /\ i = 22

CeilDiv(a, b) == (a + b - 1) \div b

\* C29: the loop terminates: every iteration advances the start index or
\* strictly decreases the batch size (or ends the run), so that N points
\* take at most ceil(N / 10) + 2 requests, at most 2 of them URL-too-long
\* rejections that trigger a shrink.
C29_LoopTerminates ==
    /\ [][RequestStep
          => (i' > i \/ batch_size' < batch_size \/ pc' = "raised")]_vars
    /\ [](n_requests <= CeilDiv(Len(all_points), 10) + 2)
    /\ [](n_shrinks <= 2)
    /\ <>(pc # "loop")

\* C29 witness: 22 points took 3 + 2 requests, two of them shrinks.
C29_Witness ==
    /\ pc = "done"
    /\ Len(all_points) = 22
    /\ n_requests = 5
    /\ n_shrinks = 2

\* C30: n_batches counts the requests that ended without URLTooLongError,
\* those whose points all failed (retries exhausted, fatal error) included;
\* a request rejected as URL-too-long is not counted, whether it triggers a
\* shrink or abandons the batch at the smallest size.
C30_BatchesCountResolvedRequests ==
    /\ [](pc # "raised" => n_batches = n_requests - n_too_long)
    /\ [](fetch_result # None
          => fetch_result.n_batches = n_requests - n_too_long)
    /\ [][RequestStep
          => /\ last_request'.http \in {"request_failed", "exhausted"}
                => n_batches' = n_batches + 1
             /\ last_request'.http = "url_too_long"
                => n_batches' = n_batches]_vars

\* C30 witness: two shrinks, one batch abandoned at size 10, one batch with
\* all points failed and one answered: n_batches is 2 after 5 requests.
C30_Witness ==
    /\ fetch_result # None
    /\ n_requests = 5
    /\ n_too_long = 3
    /\ fetch_result.n_batches = 2
    /\ last_request.http \in {"request_failed", "exhausted"}

\* The samples of the payload that lie on the local date d at a local hour
\* from 9 to 16, both included.
SamplesNineToSixteen(d) ==
    {k \in 1..Len(point_payload.time) :
        /\ LocalDate(point_payload.time[k]) = d
        /\ LocalHour(point_payload.time[k]) \in 9..16}

\* The readings of one hourly field that are not None, among the samples ks.
Readings(field, ks) == {k \in ks : ~field[k].null}

\* C23: the parser returns a record for a date if and only if the hourly
\* series has a sample on that date at a local hour h with 9 <= h <= 16,
\* and the temperature, gust and precipitation aggregates of the record
\* are those of the samples of that window alone: the mean, the maximum
\* and the sum of their non-null readings.
C23_RecordIffSampleInWindow ==
    parsed_weather.returned
    => /\ DOMAIN parsed_weather.weather
              = {d \in {LocalDate(point_payload.time[k]) :
                            k \in 1..Len(point_payload.time)} :
                    SamplesNineToSixteen(d) # {}}
       /\ \A d \in DOMAIN parsed_weather.weather :
              LET w == parsed_weather.weather[d]
                  ks == SamplesNineToSixteen(d)
                  temps == Readings(point_payload.temperature_2m, ks)
                  gusts == Readings(point_payload.wind_gusts_10m, ks)
                  precs == Readings(point_payload.precipitation, ks)
                  n == Cardinality(temps)
                  total == SumAt(point_payload.temperature_2m, temps, 1,
                                 Len(point_payload.temperature_2m))
              IN  /\ w.date = d
                  /\ temps # {}
                     => /\ 2 * (n * w.temp_c_avg_9_16.v - total) <= n
                        /\ 2 * (total - n * w.temp_c_avg_9_16.v) <= n
                  /\ gusts # {}
                     => /\ \E k \in gusts :
                               w.wind_gust_kmh_max_9_16.v
                                   = point_payload.wind_gusts_10m[k].v
                        /\ \A k \in gusts :
                               point_payload.wind_gusts_10m[k].v
                                   <= w.wind_gust_kmh_max_9_16.v
                  /\ precs # {}
                     => w.precip_mm_sum_9_16.v
                            = SumAt(point_payload.precipitation, precs, 1,
                                    Len(point_payload.precipitation))

\* C23 witness: samples at 16:00 and 17:00 with readings; the record of
\* the day has the temperature and the gust of the 16:00 sample only.
C23_Witness ==
    /\ parsed_weather.returned
    /\ Len(point_payload.time) = 2
    /\ LocalHour(point_payload.time[1]) = 16
    /\ LocalHour(point_payload.time[2]) = 17
    /\ ~point_payload.temperature_2m[2].null
    /\ ~point_payload.wind_gusts_10m[2].null
    /\ \E d \in DOMAIN parsed_weather.weather :
           /\ parsed_weather.weather[d].temp_c_avg_9_16 = Some(-45)
           /\ parsed_weather.weather[d].wind_gust_kmh_max_9_16 = Some(200)

\* C24: in every record, each of temp_c_avg_9_16, wind_gust_kmh_max_9_16
\* and precip_mm_sum_9_16 is None exactly when the skiing window has no
\* non-null reading of the field, and a number otherwise; readings that
\* add up to 0 mm give a precipitation sum of 0, not None.
C24_AggregateNoneIffNoReading ==
    parsed_weather.returned
    => \A d \in DOMAIN parsed_weather.weather :
           LET w == parsed_weather.weather[d]
               ks == SamplesNineToSixteen(d)
               precs == Readings(point_payload.precipitation, ks)
           IN  /\ w.temp_c_avg_9_16.null
                  <=> (Readings(point_payload.temperature_2m, ks) = {})
               /\ w.wind_gust_kmh_max_9_16.null
                  <=> (Readings(point_payload.wind_gusts_10m, ks) = {})
               /\ w.precip_mm_sum_9_16.null <=> (precs = {})
               /\ w.temp_c_avg_9_16.null => w.temp_c_avg_9_16 = Null
               /\ (/\ precs # {}
                   /\ \A k \in precs : point_payload.precipitation[k].v = 0)
                  => w.precip_mm_sum_9_16 = Some(0)

\* C24 witness: a window without any temperature or gust reading and with
\* precipitation readings of 0 mm: None, None and 0.
C24_Witness ==
    /\ parsed_weather.returned
    /\ \E d \in DOMAIN parsed_weather.weather :
           /\ Cardinality(SamplesNineToSixteen(d)) = 2
           /\ parsed_weather.weather[d].temp_c_avg_9_16 = Null
           /\ parsed_weather.weather[d].wind_gust_kmh_max_9_16 = Null
           /\ parsed_weather.weather[d].precip_mm_sum_9_16 = Some(0)

====
